---- MODULE Spec2Model ----
(***************************************************************************)
(* Code360 profile extractor (src/main.py): the request pipeline           *)
(*   scrape_profile -> fetch_profile_html -> clean_html                    *)
(*                  -> extract_profile_data -> save_json                   *)
(* Strings are sequences of one-character strings.  Requests run in        *)
(* FastAPI's thread pool, so their steps interleave; the two files in the  *)
(* working directory (profile_data.json, profile_ss.png) are shared.       *)
(***************************************************************************)
EXTENDS Integers, Sequences, FiniteSets, TLC

\* ------------------------------------------------------------------ bounds
NumRequests == 2     \* concurrent requests
MaxPad == 1          \* whitespace characters around a text or a response
Delta == 1           \* text lengths tried on each side of the threshold
MaxBodyLen == 2      \* length of the generated response bodies

\* --------------------------------------------------------------- constants
MinTextLen == 100            \* len(text.strip()) < 100
InsufficientStatus == 400    \* HTTPException(status_code=400, "Insufficient profile text")
InitFailedStatus_BadInput == InsufficientStatus
InitFailedStatus == 500      \* HTTPException(status_code=500, "Selenium init failed")
UnhandledStatus == 500       \* an exception that leaves the route: FastAPI answers 500
OkStatus == 200              \* the route returned its dict

\* ----------------------------------------------------------------- strings
WS == {" ", "\n"}
Digits == {"0", "1", "2", "3", "4", "5", "6", "7", "8", "9"}

RECURSIVE LStrip(_)
LStrip(s) == IF s # <<>> /\ Head(s) \in WS THEN LStrip(Tail(s)) ELSE s

RECURSIVE RStrip(_)
RStrip(s) ==
    IF s # <<>> /\ s[Len(s)] \in WS THEN RStrip(SubSeq(s, 1, Len(s) - 1)) ELSE s

\* str.strip()
Strip(s) == RStrip(LStrip(s))

\* str.replace(pat, ""): leftmost, non-overlapping occurrences are removed
RECURSIVE Remove(_, _)
Remove(s, pat) ==
    IF Len(s) < Len(pat) THEN s
    ELSE IF SubSeq(s, 1, Len(pat)) = pat
         THEN Remove(SubSeq(s, Len(pat) + 1, Len(s)), pat)
         ELSE <<Head(s)>> \o Remove(Tail(s), pat)

\* pat in s
RECURSIVE Contains(_, _)
Contains(s, pat) ==
    IF Len(s) < Len(pat) THEN FALSE
    ELSE SubSeq(s, 1, Len(pat)) = pat \/ Contains(Tail(s), pat)

Pad(n) == [i \in 1..n |-> " "]
Body(n) == [i \in 1..n |-> "x"]

\* -------------------------------------------------------------- json.loads
\* A parsed value: every value has the same three fields.
JNull == [kind |-> "null", text |-> <<>>, items |-> <<>>]
JNum(lexeme) == [kind |-> "num", text |-> lexeme, items |-> <<>>]
JStr(chars) == [kind |-> "str", text |-> chars, items |-> <<>>]
JArr(values) == [kind |-> "arr", text |-> <<>>, items |-> values]
JPair(key, value) == [kind |-> "pair", text |-> key, items |-> <<value>>]
JObj(pairs) == [kind |-> "obj", text |-> <<>>, items |-> pairs]

NoParse == [ok |-> FALSE, val |-> JNull, pos |-> 0]
Parsed(v, p) == [ok |-> TRUE, val |-> v, pos |-> p]

RECURSIVE SkipWs(_, _)
SkipWs(s, i) == IF i <= Len(s) /\ s[i] \in WS THEN SkipWs(s, i + 1) ELSE i

\* position of the closing quote of the string whose content starts at i; 0 if none
\* (a raw control character inside a string is an error)
RECURSIVE ScanString(_, _)
ScanString(s, i) ==
    IF i > Len(s) THEN 0
    ELSE IF s[i] = "\"" THEN i
    ELSE IF s[i] = "\n" THEN 0
    ELSE ScanString(s, i + 1)

\* end of the run of digits that starts at i
RECURSIVE ScanDigits(_, _)
ScanDigits(s, i) == IF i <= Len(s) /\ s[i] \in Digits THEN ScanDigits(s, i + 1) ELSE i

\* a dict keeps one entry per key: a repeated key replaces the value in place
SetKey(pairs, key, value) ==
    IF \E k \in 1..Len(pairs) : pairs[k].text = key
    THEN [k \in 1..Len(pairs) |->
            IF pairs[k].text = key THEN JPair(key, value) ELSE pairs[k]]
    ELSE Append(pairs, JPair(key, value))

NullWord == <<"n", "u", "l", "l">>

\* s[i:].startswith(word)
StartsWith(s, i, word) ==
    i + Len(word) - 1 <= Len(s) /\ SubSeq(s, i, i + Len(word) - 1) = word

RECURSIVE ParseValue(_, _), ParseArray(_, _, _), ParseObject(_, _, _)
ParseValue(s, i) ==
    IF i > Len(s) THEN NoParse
    ELSE IF s[i] = "\"" THEN
        LET j == ScanString(s, i + 1)
        IN  IF j = 0 THEN NoParse ELSE Parsed(JStr(SubSeq(s, i + 1, j - 1)), j + 1)
    ELSE IF s[i] = "{" THEN
        LET j == SkipWs(s, i + 1)
        IN  IF j > Len(s) THEN NoParse
            ELSE IF s[j] = "}" THEN Parsed(JObj(<<>>), j + 1)
            ELSE ParseObject(s, j, <<>>)
    ELSE IF s[i] = "[" THEN
        LET j == SkipWs(s, i + 1)
        IN  IF j > Len(s) THEN NoParse
            ELSE IF s[j] = "]" THEN Parsed(JArr(<<>>), j + 1)
            ELSE ParseArray(s, j, <<>>)
    ELSE IF StartsWith(s, i, NullWord) THEN Parsed(JNull, i + 4)
    ELSE IF s[i] = "0" THEN Parsed(JNum(<<"0">>), i + 1)
    ELSE IF s[i] \in Digits THEN
        LET j == ScanDigits(s, i) IN Parsed(JNum(SubSeq(s, i, j - 1)), j)
    ELSE NoParse

\* i is where the next element starts
ParseArray(s, i, acc) ==
    LET r == ParseValue(s, i)
        j == SkipWs(s, r.pos)
    IN  IF ~r.ok THEN NoParse
        ELSE IF j > Len(s) THEN NoParse
        ELSE IF s[j] = "]" THEN Parsed(JArr(Append(acc, r.val)), j + 1)
        ELSE IF s[j] = "," THEN ParseArray(s, SkipWs(s, j + 1), Append(acc, r.val))
        ELSE NoParse

\* i is where the next key's opening quote must be
ParseObject(s, i, acc) ==
    IF i > Len(s) \/ s[i] # "\"" THEN NoParse
    ELSE
    LET q == ScanString(s, i + 1)
        c == SkipWs(s, q + 1)
        r == ParseValue(s, SkipWs(s, c + 1))
        j == SkipWs(s, r.pos)
        key == SubSeq(s, i + 1, q - 1)
    IN  IF q = 0 THEN NoParse
        ELSE IF c > Len(s) \/ s[c] # ":" THEN NoParse
        ELSE IF ~r.ok THEN NoParse
        ELSE IF j > Len(s) THEN NoParse
        ELSE IF s[j] = "}" THEN Parsed(JObj(SetKey(acc, key, r.val)), j + 1)
        ELSE IF s[j] = "," THEN ParseObject(s, SkipWs(s, j + 1), SetKey(acc, key, r.val))
        ELSE NoParse

\* json.loads(s): one value between optional whitespace, nothing after it
json_loads(s) ==
    LET r == ParseValue(s, SkipWs(s, 1))
    IN  IF r.ok /\ SkipWs(s, r.pos) = Len(s) + 1 THEN r ELSE NoParse

\* ------------------------------------------------------------------ inputs
Tick == "tick"       \* the backquote character
FenceJson == <<Tick, Tick, Tick, "j", "s", "o", "n">>
Fence == <<Tick, Tick, Tick>>
Host == <<"n", "a", "u", "k", "r", "i", ".", "c", "o", "m">>
UrlPrefix ==
    <<"h", "t", "t", "p", "s", ":", "/", "/", "w", "w", "w", ".">> \o Host
    \o <<"/", "c", "o", "d", "e", "3", "6", "0", "/", "p", "r", "o", "f", "i", "l", "e", "/">>
Jdoe == <<"j", "d", "o", "e">>

Requests == 1..NumRequests

\* identifiers a caller may send: bare names, full URLs, near misses of the host
Identifiers ==
    { p \o m \o q :
        p \in {<<>>, <<"x">>, UrlPrefix},
        m \in {<<>>, Host, SubSeq(Host, 1, 9), SubSeq(Host, 2, 10), <<"N">> \o Tail(Host)},
        q \in {<<>>, Jdoe, <<"/">>} }
LeanIdentifiers == {Jdoe}

\* a page is a sequence of nodes, each a tag with its text
Node(tag, t) == [tag |-> tag, text |-> t]
ShortPage == <<Node("script", Body(120)), Node("p", Pad(1) \o Body(50))>>
LongPage == <<Node("div", Body(100) \o Pad(1)), Node("style", Body(30)), Node("p", Body(49))>>
Pages == {ShortPage, LongPage}

\* texts handed to extract_profile_data: whitespace around a body of a given length
TextLens == {0, 50, 150} \cup ((MinTextLen - Delta)..(MinTextLen + Delta))
Texts == { Pad(a) \o Body(n) \o Pad(b) : a \in 0..MaxPad, n \in TextLens, b \in 0..MaxPad }
LeanTexts == {Body(MinTextLen)}

\* what the model answers: a body, possibly inside fence markers and whitespace
ObjA == <<"{", "\"", "a", "\"", ":", "1", "}">>
ObjTicks == <<"{", "\"", "a", "\"", ":", "\"", Tick, Tick, Tick, "\"", "}">>
ObjFenceJson == <<"{", "\"", "a", "\"", ":", "\"">> \o FenceJson \o <<"\"", "}">>
ObjRaw == <<"{", "\"", "r", "a", "w", "\"", ":", "\"", "n", "o", "\"", "}">>
ArrOne == <<"[", "1", ",", " ", "n", "u", "l", "l", "]">>
PlainNo == <<"n", "o">>
Truncated == <<"{", "\"", "a", "\"", ":">>
RECURSIVE SeqsUpTo(_, _)
SeqsUpTo(S, n) ==
    IF n = 0 THEN {<<>>}
    ELSE LET shorter == SeqsUpTo(S, n - 1)
         IN  shorter \cup { Append(t, c) : t \in shorter, c \in S }
Bodies ==
    {ObjA, ObjTicks, ObjFenceJson, ObjRaw, ArrOne, PlainNo, Truncated, NullWord}
    \cup SeqsUpTo({Tick, "\"", "1", "j", "["}, MaxBodyLen)
Reply(lead, open, sep, body, close, trail) ==
    [lead |-> lead, open |-> open, sep |-> sep, body |-> body, close |-> close,
     trail |-> trail, error |-> FALSE]
Responses ==
    { Reply(a, o, s, b, c, t) :
        a \in 0..MaxPad, o \in {<<>>, Fence, FenceJson}, s \in {<<>>, <<"\n">>},
        b \in Bodies, c \in {<<>>, Fence}, t \in 0..MaxPad }
LeanResponses ==
    { Reply(0, <<>>, <<>>, b, <<>>, 0) : b \in {ObjA, PlainNo, ArrOne} }
    \cup {Reply(0, FenceJson, <<"\n">>, ObjA, Fence, 0)}
\* chain.invoke raised instead of answering
LlmError == [Reply(0, <<>>, <<>>, <<>>, <<>>, 0) EXCEPT !.error = TRUE]
\* the response's characters (.content)
Content(m) ==
    Pad(m.lead) \o m.open \o m.sep \o m.body \o m.sep \o m.close
    \o [i \in 1..m.trail |-> "\n"]

\* ------------------------------------------------------ the code's functions
\* scrape_profile: the URL the identifier stands for
ResolveUrl_Always(username) == UrlPrefix \o username
ResolveUrl(username) ==
    IF ~Contains(username, Host) THEN UrlPrefix \o username ELSE username

\* clean_html: script, style and noscript nodes are dropped; the other nodes'
\* texts are stripped, the empty ones skipped, the rest joined by newlines
Dropped == {"script", "style", "noscript"}
RECURSIVE JoinLines(_)
JoinLines(lines) ==
    IF lines = <<>> THEN <<>>
    ELSE IF Len(lines) = 1 THEN lines[1]
    ELSE lines[1] \o <<"\n">> \o JoinLines(Tail(lines))
clean_html(page) ==
    LET kept == SelectSeq(page, LAMBDA n : n.tag \notin Dropped /\ Strip(n.text) # <<>>)
    IN  JoinLines([k \in 1..Len(kept) |-> Strip(kept[k].text)])

\* extract_profile_data: the guard on the text
TooShort_NoStrip(t) == t = <<>> \/ Len(t) < MinTextLen
TooShort(t) == t = <<>> \/ Len(Strip(t)) < MinTextLen

\* extract_profile_data, line 95: .content.strip()
Trimmed(m) == Strip(Content(m))

\* extract_profile_data, line 98: the fence markers are removed, then strip()
Unfence_LabelOnly(out) == Strip(Remove(out, FenceJson))
Unfence(out) == Strip(Remove(Remove(out, FenceJson), Fence))

\* the record {"raw": output}
Fallback(out) == JObj(<<JPair(<<"r", "a", "w">>, JStr(out))>>)

\* extract_profile_data, lines 97-101, on the trimmed response
ParseOutput_Propagate(out) ==
    LET r == json_loads(Unfence(out)) IN IF r.ok THEN r.val ELSE JNull
ParseOutput(out) ==
    LET cleaned == Unfence(out)
        r == json_loads(cleaned)
    IN  IF r.ok THEN r.val ELSE Fallback(cleaned)

\* ------------------------------------------------------------------- state
VARIABLES
    pc,           \* where each request is in the code
    identifier,   \* the username parameter
    profile_url,  \* scrape_profile's profile_url
    driver,       \* the request holds a Chrome instance
    acquired,     \* how many instances the request has launched
    visited,      \* the URLs the request handed to driver.get
    html,         \* fetch_profile_html's result (a page)
    text,         \* clean_html's result
    content,      \* what chain.invoke answered
    output,       \* extract_profile_data's output
    extracted,    \* extract_profile_data's result
    llmCalls,     \* how many times the request invoked the model
    saves,        \* how many times the request wrote profile_data.json
    failedAt,     \* the step that raised, "none" if none did
    status,       \* the HTTP status of the answer, 0 before it
    reply,        \* the body of a 200 answer
    trace,        \* the stages the request entered, in order
    dataFile,     \* profile_data.json in the working directory (shared)
    screenshot,   \* profile_ss.png in the working directory (shared)
    sinkOk        \* profile_data.json can be removed and written

vars ==
    <<pc, identifier, profile_url, driver, acquired, visited, html, text, content,
      output, extracted, llmCalls, saves, failedAt, status, reply, trace, dataFile,
      screenshot, sinkOk>>

NoRecord == [kind |-> "none", text |-> <<>>, items |-> <<>>]
NoReply == [success |-> FALSE, url |-> <<>>, data |-> NoRecord]
NoFile == [exists |-> FALSE, data |-> NoRecord]
OldFile == [exists |-> TRUE, data |-> JObj(<<>>)]

\* the spec's stage of each place in the code
Stage(at) ==
    CASE at \in {"init_driver", "get", "save_screenshot", "page_source", "quit"} -> "Rendering"
      [] at = "clean_html" -> "Normalizing"
      [] at \in {"guard", "invoke", "parse"} -> "Extracting"
      [] at \in {"exists", "remove", "open"} -> "Persisting"
      [] OTHER -> at

Goto(r, to) ==
    /\ pc' = [pc EXCEPT ![r] = to]
    /\ trace' = [trace EXCEPT ![r] =
                    IF Stage(to) # Stage(pc[r]) THEN Append(@, Stage(to)) ELSE @]

\* an exception leaves the route: the request is answered with an error status
Raise_Continue(r, code, at) ==
    /\ Goto(r, "exists")
    /\ failedAt' = [failedAt EXCEPT ![r] = at]
    /\ status' = [status EXCEPT ![r] = code]
Raise(r, code, at) ==
    /\ Goto(r, "Failed")
    /\ failedAt' = [failedAt EXCEPT ![r] = at]
    /\ status' = [status EXCEPT ![r] = code]

Init ==
    /\ pc = [r \in Requests |-> "Idle"]
    /\ identifier = [r \in Requests |-> <<>>]
    /\ profile_url = [r \in Requests |-> <<>>]
    /\ driver = [r \in Requests |-> FALSE]
    /\ acquired = [r \in Requests |-> 0]
    /\ visited = [r \in Requests |-> <<>>]
    /\ html = [r \in Requests |-> <<>>]
    /\ text = [r \in Requests |-> <<>>]
    /\ content = [r \in Requests |-> LlmError]
    /\ output = [r \in Requests |-> <<>>]
    /\ extracted = [r \in Requests |-> NoRecord]
    /\ llmCalls = [r \in Requests |-> 0]
    /\ saves = [r \in Requests |-> 0]
    /\ failedAt = [r \in Requests |-> "none"]
    /\ status = [r \in Requests |-> 0]
    /\ reply = [r \in Requests |-> NoReply]
    /\ trace = [r \in Requests |-> <<>>]
    /\ dataFile \in {NoFile, OldFile}
    /\ screenshot = <<>>
    /\ sinkOk \in BOOLEAN

reqVars == <<identifier, profile_url>>
renderVars == <<driver, acquired, visited, html>>
extractVars == <<text, content, output, extracted, llmCalls>>
sinkVars == <<saves, reply, dataFile>>
errVars == <<failedAt, status>>

\* ----------------------------------------------------------------- actions
\* scrape_profile, lines 114-118: a request arrives and its URL is resolved
Arrive(r, ids) ==
    /\ pc[r] = "Idle"
    /\ \E username \in ids :
        /\ identifier' = [identifier EXCEPT ![r] = username]
        /\ profile_url' = [profile_url EXCEPT ![r] = ResolveUrl(username)]
    /\ Goto(r, "init_driver")
    /\ UNCHANGED <<renderVars, extractVars, sinkVars, errVars, screenshot, sinkOk>>

\* init_driver: Chrome starts, or the failure is raised as HTTPException(500)
InitDriver(r) ==
    /\ pc[r] = "init_driver"
    /\ \/ /\ driver' = [driver EXCEPT ![r] = TRUE]
          /\ acquired' = [acquired EXCEPT ![r] = @ + 1]
          /\ Goto(r, "get")
          /\ UNCHANGED errVars
       \/ /\ Raise(r, InitFailedStatus, "init_driver")
          /\ UNCHANGED <<driver, acquired>>
    /\ UNCHANGED <<reqVars, visited, html, extractVars, sinkVars, screenshot, sinkOk>>

\* fetch_profile_html, line 48: driver.get(profile_url); an exception waits for
\* the finally block
DriverGet(r) ==
    /\ pc[r] = "get"
    /\ visited' = [visited EXCEPT ![r] = Append(@, profile_url[r])]
    /\ \/ Goto(r, "save_screenshot") /\ UNCHANGED failedAt
       \/ Goto(r, "quit") /\ failedAt' = [failedAt EXCEPT ![r] = "get"]
    /\ UNCHANGED <<reqVars, driver, acquired, html, extractVars, sinkVars, status,
                   screenshot, sinkOk>>

\* fetch_profile_html, lines 50-51: driver.save_screenshot(cwd/profile_ss.png)
SaveScreenshot(r) ==
    /\ pc[r] = "save_screenshot"
    /\ \/ /\ screenshot' = profile_url[r]
          /\ Goto(r, "page_source")
          /\ UNCHANGED failedAt
       \/ /\ Goto(r, "quit")
          /\ failedAt' = [failedAt EXCEPT ![r] = "save_screenshot"]
          /\ UNCHANGED screenshot
    /\ UNCHANGED <<reqVars, renderVars, extractVars, sinkVars, status, sinkOk>>

\* fetch_profile_html, line 52: driver.page_source
PageSource(r, pages) ==
    /\ pc[r] = "page_source"
    /\ \/ /\ \E page \in pages : html' = [html EXCEPT ![r] = page]
          /\ UNCHANGED failedAt
       \/ /\ failedAt' = [failedAt EXCEPT ![r] = "page_source"]
          /\ UNCHANGED html
    /\ Goto(r, "quit")
    /\ UNCHANGED <<reqVars, driver, acquired, visited, extractVars, sinkVars, status,
                   screenshot, sinkOk>>

\* fetch_profile_html, lines 54-55: finally driver.quit(); then the page is
\* returned or the waiting exception leaves the route
DriverQuit_NoFinally(r) ==
    /\ pc[r] = "quit"
    /\ driver' = [driver EXCEPT ![r] = failedAt[r] # "none"]
    /\ IF failedAt[r] # "none"
       THEN /\ Goto(r, "Failed")
            /\ status' = [status EXCEPT ![r] = UnhandledStatus]
       ELSE /\ Goto(r, "clean_html")
            /\ UNCHANGED status
    /\ UNCHANGED <<reqVars, acquired, visited, html, extractVars, sinkVars, failedAt,
                   screenshot, sinkOk>>
DriverQuit(r) ==
    /\ pc[r] = "quit"
    /\ driver' = [driver EXCEPT ![r] = FALSE]
    /\ IF failedAt[r] # "none"
       THEN /\ Goto(r, "Failed")
            /\ status' = [status EXCEPT ![r] = UnhandledStatus]
       ELSE /\ Goto(r, "clean_html")
            /\ UNCHANGED status
    /\ UNCHANGED <<reqVars, acquired, visited, html, extractVars, sinkVars, failedAt,
                   screenshot, sinkOk>>

\* scrape_profile, line 121: text = clean_html(html)
CleanHtml(r) ==
    /\ pc[r] = "clean_html"
    /\ text' = [text EXCEPT ![r] = clean_html(html[r])]
    /\ Goto(r, "guard")
    /\ UNCHANGED <<reqVars, renderVars, content, output, extracted, llmCalls, sinkVars,
                   errVars, screenshot, sinkOk>>

\* extract_profile_data, lines 67-68
Guard(r) ==
    /\ pc[r] = "guard"
    /\ IF TooShort(text[r])
       THEN Raise(r, InsufficientStatus, "guard")
       ELSE Goto(r, "invoke") /\ UNCHANGED errVars
    /\ UNCHANGED <<reqVars, renderVars, extractVars, sinkVars, screenshot, sinkOk>>

\* extract_profile_data, lines 94-95: chain.invoke(...).content.strip()
Invoke(r, responses) ==
    /\ pc[r] = "invoke"
    /\ llmCalls' = [llmCalls EXCEPT ![r] = @ + 1]
    /\ \E m \in responses \cup {LlmError} :
        /\ content' = [content EXCEPT ![r] = m]
        /\ IF m.error
           THEN Raise(r, UnhandledStatus, "invoke") /\ UNCHANGED output
           ELSE /\ output' = [output EXCEPT ![r] = Trimmed(m)]
                /\ Goto(r, "parse")
                /\ UNCHANGED errVars
    /\ UNCHANGED <<reqVars, renderVars, text, extracted, sinkVars, screenshot, sinkOk>>

\* extract_profile_data, lines 97-101
Parse(r) ==
    /\ pc[r] = "parse"
    /\ output' = [output EXCEPT ![r] = Unfence(@)]
    /\ extracted' = [extracted EXCEPT ![r] = ParseOutput(output[r])]
    /\ Goto(r, "exists")
    /\ UNCHANGED <<reqVars, renderVars, text, content, llmCalls, sinkVars, errVars,
                   screenshot, sinkOk>>

\* save_json, line 106: os.path.exists(path)
SaveExists(r) ==
    /\ pc[r] = "exists"
    /\ Goto(r, IF dataFile.exists THEN "remove" ELSE "open")
    /\ UNCHANGED <<reqVars, renderVars, extractVars, sinkVars, errVars, screenshot,
                   sinkOk>>

\* save_json, line 107: os.remove(path) raises when the file is gone or cannot
\* be removed
SaveRemove(r) ==
    /\ pc[r] = "remove"
    /\ IF dataFile.exists /\ sinkOk
       THEN /\ dataFile' = NoFile
            /\ Goto(r, "open")
            /\ UNCHANGED errVars
       ELSE /\ Raise(r, UnhandledStatus, "remove")
            /\ UNCHANGED dataFile
    /\ UNCHANGED <<reqVars, renderVars, extractVars, saves, reply, screenshot, sinkOk>>

\* save_json, lines 108-110, and scrape_profile's return, lines 125-131
SaveOpen(r) ==
    /\ pc[r] = "open"
    /\ IF sinkOk
       THEN /\ dataFile' = [exists |-> TRUE, data |-> extracted[r]]
            /\ saves' = [saves EXCEPT ![r] = @ + 1]
            /\ reply' = [reply EXCEPT ![r] =
                    [success |-> TRUE, url |-> profile_url[r], data |-> extracted[r]]]
            /\ status' = [status EXCEPT ![r] = OkStatus]
            /\ Goto(r, "Done")
            /\ UNCHANGED failedAt
       ELSE /\ Raise(r, UnhandledStatus, "open")
            /\ UNCHANGED <<dataFile, saves, reply>>
    /\ UNCHANGED <<reqVars, renderVars, extractVars, screenshot, sinkOk>>

\* ---------------------------------------------------------- specifications
\* concurrent requests through the whole route
Next ==
    \E r \in Requests :
        \/ Arrive(r, LeanIdentifiers)
        \/ InitDriver(r)
        \/ DriverGet(r)
        \/ SaveScreenshot(r)
        \/ PageSource(r, Pages)
        \/ DriverQuit(r)
        \/ CleanHtml(r)
        \/ Guard(r)
        \/ Invoke(r, LeanResponses)
        \/ Parse(r)
        \/ SaveExists(r)
        \/ SaveRemove(r)
        \/ SaveOpen(r)

Spec == Init /\ [][Next]_vars

\* the state on entry to extract_profile_data(t), for the texts given
InitCall(texts) ==
    /\ pc = [r \in Requests |-> IF r = 1 THEN "guard" ELSE "Idle"]
    /\ identifier = [r \in Requests |-> <<>>]
    /\ profile_url = [r \in Requests |-> <<>>]
    /\ driver = [r \in Requests |-> FALSE]
    /\ acquired = [r \in Requests |-> 0]
    /\ visited = [r \in Requests |-> <<>>]
    /\ html = [r \in Requests |-> <<>>]
    /\ \E t \in texts : text = [r \in Requests |-> IF r = 1 THEN t ELSE <<>>]
    /\ content = [r \in Requests |-> LlmError]
    /\ output = [r \in Requests |-> <<>>]
    /\ extracted = [r \in Requests |-> NoRecord]
    /\ llmCalls = [r \in Requests |-> 0]
    /\ saves = [r \in Requests |-> 0]
    /\ failedAt = [r \in Requests |-> "none"]
    /\ status = [r \in Requests |-> 0]
    /\ reply = [r \in Requests |-> NoReply]
    /\ trace = [r \in Requests |-> IF r = 1 THEN <<"Extracting">> ELSE <<>>]
    /\ dataFile = NoFile
    /\ screenshot = <<>>
    /\ sinkOk = TRUE

\* one request through the whole route, for every identifier
NextAlone ==
    \/ Arrive(1, Identifiers)
    \/ InitDriver(1)
    \/ DriverGet(1)
    \/ SaveScreenshot(1)
    \/ PageSource(1, Pages)
    \/ DriverQuit(1)
    \/ CleanHtml(1)
    \/ Guard(1)
    \/ Invoke(1, LeanResponses)
    \/ Parse(1)
    \/ SaveExists(1)
    \/ SaveRemove(1)
    \/ SaveOpen(1)

SpecAlone == Init /\ [][NextAlone]_vars

\* extract_profile_data called on every text
InitGuard == InitCall(Texts)
NextGuard == Guard(1) \/ Invoke(1, LeanResponses) \/ Parse(1)
SpecGuard == InitGuard /\ [][NextGuard]_vars

\* extract_profile_data answered with every response
InitParse == InitCall(LeanTexts)
NextParse == Guard(1) \/ Invoke(1, Responses) \/ Parse(1)
SpecParse == InitParse /\ [][NextParse]_vars

\* ------------------------------------------------------------------ claims
Terminal == {"Done", "Failed"}
RenderSteps == {"init_driver", "get", "save_screenshot", "page_source"}
SinkSteps == {"remove", "open"}
Range(f) == { f[k] : k \in DOMAIN f }

\* the model answered request r, and the answer has been parsed
Answered(r) == llmCalls[r] > 0 /\ ~content[r].error /\ pc[r] # "parse"
\* the answer's text once trimmed and cleaned of fence markers
Cleaned(r) == Unfence(Strip(Content(content[r])))
Unparseable(r) == ~json_loads(Cleaned(r)).ok

\* C1: a response that does not parse as JSON gives the record {raw: cleaned
\* response}; the request goes on to the persist stage and can then fail only
\* in save_json, never because of the response.
C1_FallbackNeverFails ==
    \A r \in Requests :
        (Answered(r) /\ Unparseable(r)) =>
            /\ extracted[r] = JObj(<<JPair(<<"r", "a", "w">>, JStr(Cleaned(r)))>>)
            /\ "Persisting" \in Range(trace[r])
            /\ pc[r] = "Failed" => failedAt[r] \in SinkSteps
            /\ pc[r] = "Done" => reply[r].data = extracted[r]
C1_Witness ==
    \E r \in Requests :
        /\ pc[r] = "Done" /\ Unparseable(r)
        /\ reply[r].data = Fallback(PlainNo)

C3_RecordSurvivesSinkFailure ==
    \A r \in Requests :
        (pc[r] = "Failed" /\ failedAt[r] \in SinkSteps) =>
            extracted[r] # NoRecord /\ reply[r].data = extracted[r]

\* C4: each request launches its own renderer instance, at most one, holds it
\* only inside fetch_profile_html, and has released it in every terminal state,
\* whichever step of the try block failed.
C4_RendererReleased ==
    \A r \in Requests :
        /\ acquired[r] <= 1
        /\ driver[r] => acquired[r] = 1 /\ pc[r] \in {"get", "save_screenshot", "page_source", "quit"}
        /\ pc[r] \in {"get", "save_screenshot", "page_source", "quit"} => driver[r]
        /\ pc[r] \in Terminal => ~driver[r]
        /\ pc[r] = "Done" => acquired[r] = 1
C4_Witness ==
    \E r, q \in Requests :
        /\ pc[r] = "Failed" /\ failedAt[r] = "save_screenshot"
        /\ acquired[r] = 1 /\ ~driver[r]
        /\ pc[q] = "Done" /\ acquired[q] = 1 /\ ~driver[q]

\* C5: a text whose trimmed length is below 100 fails with status 400 at the
\* guard and the model is never invoked; a text whose trimmed length is 100 or
\* more passes the guard and the model is invoked exactly once.
PastGuard(r) == "Extracting" \in Range(trace[r]) /\ pc[r] # "guard"
C5_InputGuard ==
    \A r \in Requests :
        PastGuard(r) =>
            IF Len(Strip(text[r])) < 100
            THEN /\ pc[r] = "Failed" /\ failedAt[r] = "guard" /\ status[r] = 400
                 /\ llmCalls[r] = 0
            ELSE /\ failedAt[r] # "guard"
                 /\ llmCalls[r] = IF pc[r] = "invoke" THEN 0 ELSE 1
C5_Witness ==
    \E r \in Requests :
        /\ pc[r] = "Failed" /\ failedAt[r] = "guard" /\ llmCalls[r] = 0
        /\ Len(text[r]) >= 100 /\ Len(Strip(text[r])) = 99

\* C6: a response that fails to parse, or that parses to a value that is not
\* an object, gives the fallback record {raw: cleaned text}.
C6_WrongShapeFallsBack ==
    \A r \in Requests :
        (Answered(r) /\ (Unparseable(r) \/ json_loads(Cleaned(r)).val.kind # "obj")) =>
            extracted[r] = Fallback(Cleaned(r))

\* C7: a JSON text J inside fence markers and whitespace gives the same record
\* as the response J alone, and no fence marker is left in the text that is
\* parsed.
Fenced(m) == m.open # <<>> \/ m.close # <<>>
C7_FenceStripping ==
    \A r \in Requests :
        Answered(r) =>
            /\ ~Contains(output[r], Fence)
            /\ (Fenced(content[r]) /\ json_loads(content[r].body).ok) =>
                    extracted[r] = ParseOutput(Strip(content[r].body))
C7_Witness ==
    \E r \in Requests :
        /\ Answered(r)
        /\ content[r].open = FenceJson /\ content[r].close = Fence
        /\ content[r].sep = <<"\n">> /\ content[r].body = ObjTicks
        /\ extracted[r] = JObj(<<JPair(<<"a">>, JStr(<<>>))>>)

\* C8: an identifier that contains naukri.com is the request URL as it stands;
\* any other identifier u resolves to https://www.naukri.com/code360/profile/
\* followed by u; the renderer is given, and the answer's url field is, that URL.
HasHost(u) ==
    \E i \in 1..Len(u) :
        /\ i + 9 <= Len(u)
        /\ SubSeq(u, i, i + 9) = <<"n", "a", "u", "k", "r", "i", ".", "c", "o", "m">>
ProfilePrefix ==
    <<"h", "t", "t", "p", "s", ":", "/", "/", "w", "w", "w", ".", "n", "a", "u", "k",
      "r", "i", ".", "c", "o", "m", "/", "c", "o", "d", "e", "3", "6", "0", "/", "p",
      "r", "o", "f", "i", "l", "e", "/">>
C8_UrlResolution ==
    \A r \in Requests :
        pc[r] # "Idle" =>
            /\ profile_url[r] =
                 IF HasHost(identifier[r]) THEN identifier[r]
                 ELSE ProfilePrefix \o identifier[r]
            /\ \A k \in 1..Len(visited[r]) : visited[r][k] = profile_url[r]
            /\ (acquired[r] = 1 /\ pc[r] # "get") => Len(visited[r]) = 1
            /\ pc[r] = "Done" => reply[r].url = profile_url[r]
C8_Witness ==
    \E r \in Requests :
        /\ pc[r] = "Done"
        /\ identifier[r] = <<"x">> \o SubSeq(Host, 1, 9) \o Jdoe
        /\ reply[r].url = ProfilePrefix \o identifier[r]
        /\ visited[r] = <<reply[r].url>>

\* C9: a request enters the stages only in the order Rendering, Normalizing,
\* Extracting, Persisting, Done, each at most once and with no step repeated;
\* the first failure ends it in Failed, after which nothing runs: no model call
\* after a render failure, no write of the sink after a render or extract failure.
StageOrder == <<"Rendering", "Normalizing", "Extracting", "Persisting", "Done">>
IsPrefix(a, b) == Len(a) <= Len(b) /\ SubSeq(b, 1, Len(a)) = a
C9_StageOrder ==
    \A r \in Requests :
        /\ \/ IsPrefix(trace[r], StageOrder)
           \/ /\ trace[r] # <<>>
              /\ trace[r][Len(trace[r])] = "Failed"
              /\ Len(trace[r]) >= 2
              /\ IsPrefix(SubSeq(trace[r], 1, Len(trace[r]) - 1), SubSeq(StageOrder, 1, 4))
        /\ trace[r] # <<>> => trace[r][Len(trace[r])] = Stage(pc[r])
        /\ acquired[r] <= 1 /\ Len(visited[r]) <= 1 /\ llmCalls[r] <= 1 /\ saves[r] <= 1
        /\ failedAt[r] \in RenderSteps => llmCalls[r] = 0 /\ saves[r] = 0
        /\ failedAt[r] \in {"guard", "invoke"} => saves[r] = 0
        /\ failedAt[r] # "none" => pc[r] \in {"quit", "Failed"}
        /\ pc[r] = "Failed" => failedAt[r] # "none" /\ reply[r] = NoReply
C9_Witness ==
    \E r, q \in Requests :
        /\ trace[r] = <<"Rendering", "Normalizing", "Extracting", "Failed">>
        /\ failedAt[r] = "invoke" /\ llmCalls[r] = 1 /\ saves[r] = 0
        /\ trace[q] = <<"Rendering", "Failed">> /\ llmCalls[q] = 0

\* C10: concurrent requests do not affect each other: each ends as it would
\* when run alone on the same page, model answer and sink.
Outcome(r) == [status |-> status[r], data |-> reply[r].data]
Alone(r) ==
    IF failedAt[r] \in RenderSteps THEN [status |-> 500, data |-> NoRecord]
    ELSE IF Len(Strip(text[r])) < 100 THEN [status |-> 400, data |-> NoRecord]
    ELSE IF content[r].error THEN [status |-> 500, data |-> NoRecord]
    ELSE IF ~sinkOk THEN [status |-> 500, data |-> NoRecord]
    ELSE [status |-> 200, data |-> ParseOutput(Strip(Content(content[r])))]
C10_Independent ==
    \A r \in Requests : pc[r] \in Terminal => Outcome(r) = Alone(r)

====
